---- MODULE Spec2Model ----
(***************************************************************************)
(* Model of the hazard-detection benchmarks of RAG-MCQ:                    *)
(*   src/src/Hazard Detection Benchmark/gemini_hazard_benchmark.py         *)
(*       GeminiHazardBenchmark: method 1, the two-round method 2, the     *)
(*       judge (evaluate_accuracy), run_single_benchmark and               *)
(*       run_full_benchmark;                                               *)
(*   src/src/Hazard Detection Benchmark/hazard_detection_benchmark.py      *)
(*       HazardDetectionBenchmark: analyze_hazard_image, run_benchmark.    *)
(*                                                                         *)
(* Python values are tagged tuples: <<"str", s>>, <<"int", n>>,            *)
(* <<"none">>, <<"list", seq>>, <<"dict", f>> (f a function from keys to   *)
(* values) and <<"text", toks>> for a string held as a sequence of lexemes *)
(* (a reply of the model).  The lexeme "FENCE" stands for three backticks, *)
(* " " for a run of white space, "Q" for a double quote.                   *)
(***************************************************************************)
EXTENDS Integers, Sequences, FiniteSets, TLC

(***************************************************************************)
(* Python values                                                           *)
(***************************************************************************)
None == <<"none">>

Str(s) == <<"str", s>>

Num(n) == <<"int", n>>

List(s) == <<"list", s>>

Dict(f) == <<"dict", f>>

Text(toks) == <<"text", toks>>

IsDict(v) == v[1] = "dict"

IsInt(v) == v[1] = "int"

IsStr(v) == v[1] = "str"

EmptyDict == [k \in {} |-> None]

\* dict.get(key, default) on a dict value
GetOr(d, key, default) == IF key \in DOMAIN d[2] THEN d[2][key] ELSE default

\* dict.get(key): the default is None
Get(d, key) == GetOr(d, key, None)

\* d[key] = value on the function f of a dict
SetItem(f, key, value) ==
    [k \in (DOMAIN f) \cup {key} |-> IF k = key THEN value ELSE f[k]]

(***************************************************************************)
(* Strings as sequences of lexemes: str.strip, str.find, slicing           *)
(***************************************************************************)
WS == " "

FENCE == "FENCE"

QUOTE == "Q"

\* The integers whose decimal literal the replies of the model may hold.
NumRange == -10 .. 200

NumLexemes == {ToString(n) : n \in NumRange}

IsNumLexeme(tok) == tok \in NumLexemes

NumValue(tok) == CHOOSE n \in NumRange : ToString(n) = tok

\* first position >= p that is past the end or holds no white space
SkipWs(t, p) ==
    CHOOSE q \in p .. (Len(t) + 1) :
        /\ q = Len(t) + 1 \/ t[q] # WS
        /\ \A r \in p .. (q - 1) : t[r] = WS

\* last position <= p that is before the start or holds no white space
SkipWsBack(t, p) ==
    CHOOSE q \in 0 .. p :
        /\ q = 0 \/ t[q] # WS
        /\ \A r \in (q + 1) .. p : t[r] = WS

\* str.strip()
Strip(t) == SubSeq(t, SkipWs(t, 1), SkipWsBack(t, Len(t)))

\* pat occurs in t at position at (1-based)
OccursAt(t, pat, at) ==
    /\ at + Len(pat) - 1 <= Len(t)
    /\ \A j \in 1 .. Len(pat) : t[at + j - 1] = pat[j]

\* str.find(pat, from): the first occurrence at or after from, 0 standing for Python's -1
Find(t, pat, from) ==
    IF \E at \in from .. Len(t) : OccursAt(t, pat, at)
    THEN CHOOSE at \in from .. Len(t) :
             /\ OccursAt(t, pat, at)
             /\ \A j \in from .. (at - 1) : ~OccursAt(t, pat, j)
    ELSE 0

\* pat in t
Contains(t, pat) == Find(t, pat, 1) # 0

\* str.startswith(pat)
StartsWith(t, pat) == OccursAt(t, pat, 1)

RECURSIVE RemoveAll(_, _)
\* str.replace(pat, ''): every non-overlapping occurrence removed, left to right
RemoveAll(t, pat) ==
    LET at == Find(t, pat, 1)
    IN  IF at = 0 THEN t
        ELSE SubSeq(t, 1, at - 1) \o RemoveAll(SubSeq(t, at + Len(pat), Len(t)), pat)

RECURSIVE ConcatLexemes(_)
ConcatLexemes(t) == IF t = <<>> THEN "" ELSE Head(t) \o ConcatLexemes(Tail(t))

(***************************************************************************)
(* json.loads on a sequence of lexemes                                     *)
(***************************************************************************)
ParseFail == [ok |-> FALSE, val |-> None, pos |-> 0]

ParseOk(v, p) == [ok |-> TRUE, val |-> v, pos |-> p]

\* a JSON string starting at the quote at position p
ParseString(t, p) ==
    IF p > Len(t) \/ t[p] # QUOTE THEN ParseFail
    ELSE LET q == Find(t, <<QUOTE>>, p + 1)
         IN  IF q = 0 THEN ParseFail
             ELSE ParseOk(Str(ConcatLexemes(SubSeq(t, p + 1, q - 1))), q + 1)

RECURSIVE ParseValue(_, _), ParseMembers(_, _, _), ParseElements(_, _, _)
ParseValue(t, p0) ==
    LET p == SkipWs(t, p0)
    IN  IF p > Len(t) THEN ParseFail
        ELSE IF t[p] = "{" THEN
            LET q == SkipWs(t, p + 1)
            IN  IF q <= Len(t) /\ t[q] = "}" THEN ParseOk(Dict(EmptyDict), q + 1)
                ELSE ParseMembers(t, q, EmptyDict)
        ELSE IF t[p] = "[" THEN
            LET q == SkipWs(t, p + 1)
            IN  IF q <= Len(t) /\ t[q] = "]" THEN ParseOk(List(<<>>), q + 1)
                ELSE ParseElements(t, q, <<>>)
        ELSE IF t[p] = QUOTE THEN ParseString(t, p)
        ELSE IF t[p] = "null" THEN ParseOk(None, p + 1)
        ELSE IF IsNumLexeme(t[p]) THEN ParseOk(Num(NumValue(t[p])), p + 1)
        ELSE ParseFail

\* the members of an object from the key at p on; f holds the earlier members
ParseMembers(t, p, f) ==
    LET k == ParseString(t, p)
    IN  IF ~k.ok THEN ParseFail
        ELSE LET c == SkipWs(t, k.pos)
             IN  IF c > Len(t) \/ t[c] # ":" THEN ParseFail
                 ELSE LET v == ParseValue(t, c + 1)
                      IN  IF ~v.ok THEN ParseFail
                          ELSE LET e == SkipWs(t, v.pos)
                                   g == SetItem(f, k.val[2], v.val)
                               IN  IF e > Len(t) THEN ParseFail
                                   ELSE IF t[e] = "}" THEN ParseOk(Dict(g), e + 1)
                                   ELSE IF t[e] = ","
                                        THEN ParseMembers(t, SkipWs(t, e + 1), g)
                                   ELSE ParseFail

\* the elements of an array from the value at p on; s holds the earlier elements
ParseElements(t, p, s) ==
    LET v == ParseValue(t, p)
    IN  IF ~v.ok THEN ParseFail
        ELSE LET e == SkipWs(t, v.pos)
             IN  IF e > Len(t) THEN ParseFail
                 ELSE IF t[e] = "]" THEN ParseOk(List(Append(s, v.val)), e + 1)
                 ELSE IF t[e] = "," THEN ParseElements(t, e + 1, Append(s, v.val))
                 ELSE ParseFail

\* json.loads(t): ok = FALSE stands for json.JSONDecodeError
json_loads(t) ==
    LET r == ParseValue(t, 1)
    IN  IF r.ok /\ SkipWs(t, r.pos) = Len(t) + 1
        THEN [ok |-> TRUE, val |-> r.val]
        ELSE [ok |-> FALSE, val |-> None]

(***************************************************************************)
(* Replies of the model, answers of the user, files                        *)
(***************************************************************************)
\* generate_content(...).text raised (transport or provider failure)
TransportError == [raised |-> TRUE, text |-> <<>>]

\* generate_content(...).text returned the text t
Reply(t) == [raised |-> FALSE, text |-> t]

StrLit(words) == <<QUOTE>> \o words \o <<QUOTE>>

Member(key, value) == <<QUOTE, key, QUOTE, ":", WS>> \o value

Sep == <<",", WS>>

\* the text of a JSON object of one, two, four or five members
Obj1(a) == <<"{">> \o a \o <<"}">>

Obj4(a, b, c, d) == <<"{">> \o a \o Sep \o b \o Sep \o c \o Sep \o d \o <<"}">>

Obj5(a, b, c, d, e) ==
    <<"{">> \o a \o Sep \o b \o Sep \o c \o Sep \o d \o Sep \o e \o <<"}">>

\* the reply wrapped in a fenced block labelled json
Fenced(t) == <<FENCE, "json", WS>> \o t \o <<WS, FENCE>>

GarbageText == <<"Sorry,", WS, "I", WS, "cannot", WS, "help">>

ArrayText == <<"[", "]">>

\* an image path: the name of the file and its extension
PathSet ==
    { [file |-> "press", ext |-> ".PNG"],
      [file |-> "gone", ext |-> ".jpg"] }

\* os.path.exists(path)
PathExists(path) == path.file # "gone"

\* str.lower() on the extensions of PathSet
Lower(ext) == IF ext = ".PNG" THEN ".png" ELSE ext

\* the bytes of the file at path
FileBytes(path) == "bytes:" \o path.file \o path.ext

\* what the user types at the three prompts of method 1
UserInput == [issue |-> "leak", location |-> "bay 2", note |-> "seen at 9am"]

\* what the user types at the three prompts of get_ground_truth
TruthInput == [issue |-> "oil leak", location |-> "bay 2 pump", note |-> "slippery"]

\* the answers the user may type at the follow-up prompt of method 2
Answers == {"metal shard visible near conveyor belt, west wall", "no"}

NominalAnswer == "metal shard visible near conveyor belt, west wall"

HazardText(issue, level, withCapa) ==
    IF withCapa
    THEN Obj5(Member("issue", StrLit(issue)),
              Member("location", StrLit(<<"bay", WS, "2">>)),
              Member("note", StrLit(<<"urgent">>)),
              Member("confidence_level", StrLit(<<level>>)),
              Member("capa", StrLit(<<"repair">>)))
    ELSE Obj4(Member("issue", StrLit(issue)),
              Member("location", StrLit(<<"bay", WS, "2">>)),
              Member("note", StrLit(<<"urgent">>)),
              Member("confidence_level", StrLit(<<level>>)))

\* the replies method 1 may receive; the first is the scripted one
Method1Nominal == Reply(Fenced(HazardText(<<"oil", WS, "leak">>, "high", TRUE)))

Method1Replies ==
    { Method1Nominal,
      Reply(HazardText(<<"oil", WS, "leak">>, "low", FALSE)),
      Reply(Obj1(Member("issue", <<"null">>))),
      Reply(GarbageText),
      Reply(ArrayText),
      TransportError }

FollowupText(question) ==
    Obj4(Member("initial_analysis", StrLit(<<"a", WS, "pump">>)),
         Member("confidence_level", StrLit(<<"medium">>)),
         Member("follow_up_question", question),
         Member("reasoning", StrLit(<<"unclear">>)))

\* the replies the first call of method 2 may receive
InitialNominal == Reply(Fenced(FollowupText(StrLit(<<"Is", WS, "it", WS, "oil?">>))))

InitialReplies ==
    { InitialNominal,
      Reply(FollowupText(StrLit(<<"Which", WS, "bay?">>))),
      Reply(Obj1(Member("initial_analysis", StrLit(<<"a", WS, "pump">>)))),
      Reply(GarbageText),
      Reply(ArrayText),
      TransportError }

\* the replies the final call of method 2 may receive
FinalNominal == Reply(Fenced(HazardText(<<"oil", WS, "leak", WS, "at", WS, "pump">>, "high", TRUE)))

FinalReplies ==
    { FinalNominal,
      Reply(HazardText(<<"spill">>, "medium", FALSE)),
      Reply(GarbageText),
      Reply(ArrayText),
      TransportError }

JudgeText(a1, a2, winner) ==
    Obj4(Member("method1_accuracy", a1),
         Member("method2_accuracy", a2),
         Member("winner", StrLit(<<winner>>)),
         Member("overall_assessment", StrLit(<<"ok">>)))

\* the scores the scripted judge gives to test 1, 2, ...: <<method 1, method 2>>
ScriptedScores ==
    <<<<80, 90>>, <<70, 95>>, <<100, 85>>, <<60, 70>>, <<90, 88>>>>

\* the reply of the scripted judge for test n
JudgeNominal(n) ==
    LET s == ScriptedScores[n]
    IN  Reply(Fenced(JudgeText(<<ToString(s[1])>>, <<ToString(s[2])>>,
              IF s[1] > s[2] THEN "method1" ELSE IF s[2] > s[1] THEN "method2" ELSE "tie")))

\* the replies the judge may give to test n
JudgeReplies(n) ==
    { JudgeNominal(n),
      Reply(JudgeText(<<ToString(75)>>, <<ToString(75)>>, "tie")),
      Reply(JudgeText(<<ToString(40)>>, <<ToString(95)>>, "method1")),
      Reply(JudgeText(<<ToString(150)>>, <<ToString(-5)>>, "both")),
      Reply(JudgeText(StrLit(<<"85%">>), <<"null">>, "method1")),
      Reply(Obj1(Member("winner", StrLit(<<"method2">>)))),
      Reply(GarbageText),
      Reply(ArrayText),
      TransportError }

(***************************************************************************)
(* GeminiHazardBenchmark: the pure parts of its methods                    *)
(***************************************************************************)
\* run_full_benchmark accepts exactly this many image paths
RequiredTests == 5

system_prompt == "You are an expert factory safety inspector analyzing hazard photos."

\* str(v) as an f-string formats a value
Fmt(v) ==
    IF v[1] = "str" THEN v[2]
    ELSE IF v[1] = "int" THEN ToString(v[2])
    ELSE IF v[1] = "none" THEN "None"
    ELSE "<" \o v[1] \o ">"

\* "image/png" if image_path.lower().endswith('.png') else "image/jpeg"
MimeType(image_path) == IF Lower(image_path.ext) = ".png" THEN "image/png" ELSE "image/jpeg"

\* encode_image(image_path)
encode_image(image_path) == FileBytes(image_path)

\* the fence handling of the Gemini methods: if "```json" in text: text[start:end].strip()
GeminiStripFence(response_text) ==
    IF Contains(response_text, <<FENCE, "json">>)
    THEN LET start == Find(response_text, <<FENCE, "json">>, 1) + 2
             end == Find(response_text, <<FENCE>>, start)
         IN  Strip(SubSeq(response_text, start,
                          IF end = 0 THEN Len(response_text) - 1 ELSE end - 1))
    ELSE response_text

\* response.text.strip(), the fence handling and json.loads
GeminiExtract(text) == json_loads(GeminiStripFence(Strip(text)))

\* the prompt of method 1, as the list of its parts
Method1Prompt(user) ==
    <<system_prompt, "USER PROVIDED INFORMATION:", user.issue, user.location, user.note,
      "TASK: Based on the user's input and your analysis of this image, provide a comprehensive safety assessment.">>

\* the record method 1 returns for a parsed reply
Method1Record(user, result) ==
    Dict([method |-> Str("manual_input_with_ai"),
          user_input |-> Dict([issue |-> Str(user.issue),
                               location |-> Str(user.location),
                               note |-> Str(user.note)]),
          issue |-> Get(result, "issue"),
          location |-> Get(result, "location"),
          note |-> Get(result, "note"),
          confidence_level |-> Get(result, "confidence_level"),
          capa |-> GetOr(result, "capa", Str("")),
          source |-> Str("ai_analysis_with_user_input")])

\* the record method 1 returns from one of its except blocks
Method1Error(user, message) ==
    Dict([method |-> Str("manual_input_with_ai"),
          error |-> Str(message),
          issue |-> Str("Based on user input: " \o user.issue),
          location |-> Str(user.location),
          note |-> Str(user.note)])

\* what method1_manual_input_with_ai returns when the call answers reply
Method1Return(user, reply) ==
    IF reply.raised THEN Method1Error(user, "AI analysis failed: TransportError")
    ELSE LET parsed == GeminiExtract(reply.text)
         IN  IF ~parsed.ok
             THEN Method1Error(user, "JSON parsing failed: JSONDecodeError")
             ELSE IF ~IsDict(parsed.val)
             THEN Method1Error(user, "AI analysis failed: AttributeError")
             ELSE Method1Record(user, parsed.val)

\* the prompt of the first call of method 2
FollowupPrompt ==
    <<system_prompt,
      "TASK: Analyze this factory image and generate ONE specific follow-up question that would help you provide a more accurate safety assessment.">>

\* a final prompt that restates the question and leaves the answer out
FinalPromptWithoutAnswer(followup, answer) ==
    <<system_prompt,
      "CONTEXT: You previously analyzed this image and asked: ",
      Fmt(GetOr(followup, "follow_up_question", Str(""))),
      "TASK: Now provide your final safety assessment.">>

\* the prompt of the final call of method 2
FinalPrompt(followup, answer) ==
    <<system_prompt,
      "CONTEXT: You previously analyzed this image and asked: ",
      Fmt(GetOr(followup, "follow_up_question", Str(""))),
      "USER ANSWER: ",
      answer,
      "TASK: Now provide your final safety assessment.">>

\* a record that takes the follow-up question from the final reply
Method2RecordFromFinal(followup, answer, final) ==
    Dict([method |-> Str("ai_followup"),
          follow_up_question |-> Get(final, "follow_up_question"),
          user_answer |-> Str(answer),
          issue |-> Get(final, "issue"),
          location |-> Get(final, "location"),
          note |-> Get(final, "note"),
          confidence_level |-> Get(final, "confidence_level"),
          capa |-> GetOr(final, "capa", Str("")),
          source |-> Str("ai_analysis_with_followup")])

\* the record method 2 returns for a parsed final reply
Method2Record(followup, answer, final) ==
    Dict([method |-> Str("ai_followup"),
          follow_up_question |-> Get(followup, "follow_up_question"),
          user_answer |-> Str(answer),
          issue |-> Get(final, "issue"),
          location |-> Get(final, "location"),
          note |-> Get(final, "note"),
          confidence_level |-> Get(final, "confidence_level"),
          capa |-> GetOr(final, "capa", Str("")),
          source |-> Str("ai_analysis_with_followup")])

\* the record method 2 returns from its except json.JSONDecodeError block
Method2JsonError ==
    Dict([method |-> Str("ai_followup"),
          error |-> Str("JSON parsing failed: JSONDecodeError"),
          confidence_level |-> Str("error"),
          issue |-> Str("AI response parsing failed"),
          location |-> Str("N/A"),
          note |-> Str("N/A")])

\* the record method 2 returns from its except Exception block
Method2AiError(cause) ==
    Dict([method |-> Str("ai_followup"),
          error |-> Str("AI analysis failed: " \o cause),
          confidence_level |-> Str("error"),
          issue |-> Str("AI analysis failed"),
          location |-> Str("N/A"),
          note |-> Str("N/A")])

\* a parse that goes on with an empty dict when the reply cannot be extracted
Method2ParseLenient(reply) ==
    IF reply.raised
    THEN [ok |-> FALSE, val |-> None, error |-> Method2AiError("TransportError")]
    ELSE LET parsed == GeminiExtract(reply.text)
         IN  IF parsed.ok /\ IsDict(parsed.val)
             THEN [ok |-> TRUE, val |-> parsed.val, error |-> None]
             ELSE [ok |-> TRUE, val |-> Dict(EmptyDict), error |-> None]

\* how a call of method 2 that answered reply ends: the parsed dict (ok), or the
\* record of the except block the failure is caught by
Method2Parse(reply) ==
    IF reply.raised
    THEN [ok |-> FALSE, val |-> None, error |-> Method2AiError("TransportError")]
    ELSE LET parsed == GeminiExtract(reply.text)
         IN  IF ~parsed.ok
             THEN [ok |-> FALSE, val |-> None, error |-> Method2JsonError]
             ELSE IF ~IsDict(parsed.val)
             THEN [ok |-> FALSE, val |-> None, error |-> Method2AiError("AttributeError")]
             ELSE [ok |-> TRUE, val |-> parsed.val, error |-> None]

\* Method2Parse on each reply the two calls of method 2 may receive
Method2Parsed == [reply \in InitialReplies \cup FinalReplies |-> Method2Parse(reply)]

\* Method1Return on each reply method 1 may receive
Method1Returns == [reply \in Method1Replies |-> Method1Return(UserInput, reply)]

\* get_ground_truth(): the record built from the three answers
GroundTruth(truth) ==
    Dict([actual_issue |-> Str(truth.issue),
          actual_location |-> Str(truth.location),
          actual_note |-> Str(truth.note),
          source |-> Str("ground_truth")])

\* a prompt for the judge that leaves the ground truth out
EvaluationPromptWithoutTruth(m1, m2, gt) ==
    <<"METHOD 1 RESULT:",
      Fmt(GetOr(m1, "issue", Str("N/A"))), Fmt(GetOr(m1, "location", Str("N/A"))),
      Fmt(GetOr(m1, "note", Str("N/A"))),
      "METHOD 2 RESULT:",
      Fmt(GetOr(m2, "issue", Str("N/A"))), Fmt(GetOr(m2, "location", Str("N/A"))),
      Fmt(GetOr(m2, "note", Str("N/A")))>>

\* the prompt evaluate_accuracy builds from the three records
EvaluationPrompt(m1, m2, gt) ==
    <<"METHOD 1 RESULT:",
      Fmt(GetOr(m1, "issue", Str("N/A"))), Fmt(GetOr(m1, "location", Str("N/A"))),
      Fmt(GetOr(m1, "note", Str("N/A"))),
      "METHOD 2 RESULT:",
      Fmt(GetOr(m2, "issue", Str("N/A"))), Fmt(GetOr(m2, "location", Str("N/A"))),
      Fmt(GetOr(m2, "note", Str("N/A"))),
      "GROUND TRUTH (CORRECT ANSWER):",
      Fmt(GetOr(gt, "actual_issue", Str("N/A"))), Fmt(GetOr(gt, "actual_location", Str("N/A"))),
      Fmt(GetOr(gt, "actual_note", Str("N/A")))>>

\* the record evaluate_accuracy returns from its except block
EvaluationError(cause) ==
    Dict([error |-> Str("Evaluation failed: " \o cause),
          method1_accuracy |-> Num(0),
          method2_accuracy |-> Num(0),
          winner |-> Str("error")])

\* an evaluation whose winner is computed from the two scores of the judge
EvaluateReturnRecomputed(reply) ==
    IF reply.raised THEN EvaluationError("TransportError")
    ELSE LET parsed == GeminiExtract(reply.text)
         IN  IF ~parsed.ok THEN EvaluationError("JSONDecodeError")
             ELSE IF /\ IsDict(parsed.val)
                     /\ IsInt(Get(parsed.val, "method1_accuracy"))
                     /\ IsInt(Get(parsed.val, "method2_accuracy"))
             THEN LET a1 == Get(parsed.val, "method1_accuracy")[2]
                      a2 == Get(parsed.val, "method2_accuracy")[2]
                  IN  Dict(SetItem(parsed.val[2], "winner",
                                   Str(IF a1 > a2 THEN "method1"
                                       ELSE IF a2 > a1 THEN "method2" ELSE "tie")))
             ELSE parsed.val

\* what evaluate_accuracy returns when the judge answers reply
EvaluateReturn(reply) ==
    IF reply.raised THEN EvaluationError("TransportError")
    ELSE LET parsed == GeminiExtract(reply.text)
         IN  IF ~parsed.ok THEN EvaluationError("JSONDecodeError") ELSE parsed.val

\* EvaluateReturn on each reply the judge may give
EvaluateReturns ==
    [reply \in UNION {JudgeReplies(n) : n \in 1 .. Len(ScriptedScores)} |->
        EvaluateReturn(reply)]

\* the record run_single_benchmark returns
TrialResult(test_number, image_path, m1, m2, gt, ev) ==
    Dict([test_number |-> Num(test_number),
          image_path |-> <<"path", image_path>>,
          method1_result |-> m1,
          method2_result |-> m2,
          ground_truth |-> gt,
          evaluation |-> ev])

RECURSIVE Sum(_)
\* sum(scores) of a list of ints
Sum(scores) == IF scores = <<>> THEN 0 ELSE Head(scores)[2] + Sum(Tail(scores))

\* sum(scores) raises TypeError: some score is not a number
SumRaises(scores) == \E k \in 1 .. Len(scores) : ~IsInt(scores[k])

RECURSIVE Gcd(_, _)
Gcd(a, b) == IF b = 0 THEN a ELSE Gcd(b, a % b)

Abs(n) == IF n < 0 THEN -n ELSE n

\* the float n / d, held as a fraction in lowest terms, d > 0
Float(n, d) ==
    LET g == Gcd(Abs(n), d)
    IN  <<"float", n \div g, d \div g>>

\* a number (an int or a float) as a fraction <<n, d>>
Frac(v) == IF v[1] = "float" THEN <<v[2], v[3]>> ELSE <<v[2], 1>>

\* a > b on numbers
Greater(a, b) == Frac(a)[1] * Frac(b)[2] > Frac(b)[1] * Frac(a)[2]

\* a mean over the trials asked for in place of the trials completed
AverageOverRequested(scores) ==
    IF scores # <<>> THEN Float(Sum(scores), RequiredTests) ELSE Num(0)

\* sum(scores) / len(scores) if scores else 0
Average(scores) == IF scores # <<>> THEN Float(Sum(scores), Len(scores)) ELSE Num(0)

\* "method1" if avg1 > avg2 else "method2" if avg2 > avg1 else "tie"
OverallWinner(avg1, avg2) ==
    IF Greater(avg1, avg2) THEN "method1"
    ELSE IF Greater(avg2, avg1) THEN "method2"
    ELSE "tie"

\* a count that reports the trials asked for in place of the trials completed
TotalTestsRequested(res) == RequiredTests

\* len(results)
TotalTests(res) == Len(res)

\* the value run_full_benchmark returns
Summary(res, scores1, scores2) ==
    Dict([benchmark_summary |->
              Dict([total_tests |-> Num(TotalTests(res)),
                    method1_average |-> Average(scores1),
                    method2_average |-> Average(scores2),
                    method1_scores |-> List(scores1),
                    method2_scores |-> List(scores2),
                    winner |-> Str(OverallWinner(Average(scores1), Average(scores2)))]),
          detailed_results |-> List(res)])

(***************************************************************************)
(* HazardDetectionBenchmark: the replies it may receive, the pure parts of *)
(* analyze_hazard_image, run_benchmark and _print_summary                  *)
(***************************************************************************)
RECURSIVE JoinMembers(_)
JoinMembers(members) ==
    IF Len(members) = 1 THEN members[1]
    ELSE members[1] \o Sep \o JoinMembers(Tail(members))

\* the text of a JSON object of the given members
Obj(members) == <<"{">> \o JoinMembers(members) \o <<"}">>

\* chat.completions.create(...) returned a response whose message content is content
Completion(content) == [raised |-> FALSE, content |-> content]

\* chat.completions.create(...) raised
CompletionError == [raised |-> TRUE, content |-> None]

BoxText ==
    Obj(<<Member("x", <<ToString(10)>>), Member("y", <<ToString(20)>>),
          Member("width", <<ToString(30)>>), Member("height", <<ToString(40)>>),
          Member("label", StrLit(<<"spill">>))>>)

\* the members of an assessment: confidence and mode are member values, or <<>> for a
\* member that is left out
AssessmentText(confidence, mode) ==
    Obj((IF confidence = <<>> THEN <<>> ELSE <<Member("confidence_level", confidence)>>)
        \o (IF mode = <<>> THEN <<>> ELSE <<Member("mode", mode)>>)
        \o <<Member("issue", StrLit(<<"oil", WS, "spill">>)),
              Member("location", StrLit(<<"bay", WS, "2">>)),
              Member("note", StrLit(<<"slippery">>)),
              Member("bounding_boxes", <<"[">> \o BoxText \o <<"]">>),
              Member("capa", StrLit(<<"clean", WS, "up">>)),
              Member("follow_up_question", <<"null">>)>>)

QuestionText ==
    Obj(<<Member("confidence_level", StrLit(<<"low">>)),
          Member("mode", StrLit(<<"follow_up_question">>)),
          Member("issue", <<"null">>),
          Member("location", <<"null">>),
          Member("note", <<"null">>),
          Member("bounding_boxes", <<"[", "]">>),
          Member("follow_up_question", StrLit(<<"Is", WS, "it", WS, "oil?">>))>>)

AutoFill == StrLit(<<"auto_fill">>)

\* the replies analyze_hazard_image may receive
AnalysisReplies ==
    { Completion(<<WS>> \o Fenced(AssessmentText(StrLit(<<"high">>), AutoFill)) \o <<WS>>),
      Completion(AssessmentText(StrLit(<<"high">>), AutoFill)),
      Completion(AssessmentText(StrLit(<<"medium">>), AutoFill)),
      Completion(AssessmentText(StrLit(<<"low">>), AutoFill)),
      Completion(AssessmentText(StrLit(<<"error">>), AutoFill)),
      Completion(AssessmentText(<<>>, AutoFill)),
      Completion(AssessmentText(<<"null">>, AutoFill)),
      Completion(AssessmentText(StrLit(<<"high">>), <<"null">>)),
      Completion(AssessmentText(StrLit(<<"high">>), <<>>)),
      Completion(Obj(<<Member("confidence_level", StrLit(<<"high">>)),
                       Member("mode", AutoFill),
                       Member("severity", StrLit(<<"major">>))>>)),
      Completion(QuestionText),
      Completion(Fenced(QuestionText)),
      Completion(<<"Here", WS, "you", WS, "go:", WS>> \o Fenced(QuestionText)),
      Completion(<<FENCE, WS>> \o QuestionText \o <<WS, FENCE>>),
      Completion(GarbageText),
      Completion(ArrayText),
      Completion(None),
      CompletionError }

\* base64.b64encode(image_file.read()).decode('utf-8')
Base64Image(image_path) == "base64:" \o FileBytes(image_path)

\* the request of analyze_hazard_image: the image is always sent as image/jpeg
AnalysisRequest(image_path) ==
    [model |-> "gpt-4o",
     text |-> "Analyze this factory image for safety hazards and follow the confidence-based output format.",
     url |-> "data:image/jpeg;base64," \o Base64Image(image_path)]

\* if content.startswith('```json'): content.replace('```json', '').replace('```', '').strip()
CleanContent(content) ==
    IF StartsWith(content, <<FENCE, "json">>)
    THEN Strip(RemoveAll(RemoveAll(content, <<FENCE, "json">>), <<FENCE>>))
    ELSE content

\* the record analyze_hazard_image returns from except json.JSONDecodeError
AnalysisJsonError(content) ==
    Dict([error |-> Str("JSON parsing error: JSONDecodeError"),
          raw_response |-> Text(content),
          confidence_level |-> Str("error"),
          mode |-> Str("error")])

\* the record analyze_hazard_image returns from except Exception
AnalysisApiError(cause) ==
    Dict([error |-> Str("API call failed: " \o cause),
          confidence_level |-> Str("error"),
          mode |-> Str("error")])

\* result['timestamp'], result['model'] and result['usage'] are set from the response
WithResponseData(result) ==
    Dict(SetItem(SetItem(SetItem(result[2], "timestamp", Str("response.created")),
                         "model", Str("response.model")),
                 "usage", Dict([prompt_tokens |-> Str("usage.prompt_tokens"),
                                completion_tokens |-> Str("usage.completion_tokens"),
                                total_tokens |-> Str("usage.total_tokens")])))

\* what analyze_hazard_image returns when the call answers reply
AnalyzeReturn(reply) ==
    IF reply.raised THEN AnalysisApiError("APIError")
    ELSE IF reply.content = None THEN AnalysisApiError("AttributeError")
    ELSE LET content == CleanContent(Strip(reply.content))
             parsed == json_loads(content)
         IN  IF ~parsed.ok THEN AnalysisJsonError(content)
             ELSE IF ~IsDict(parsed.val) THEN AnalysisApiError("TypeError")
             ELSE WithResponseData(parsed.val)

\* AnalyzeReturn on each reply analyze_hazard_image may receive
AnalyzeReturns == [reply \in AnalysisReplies |-> AnalyzeReturn(reply)]

\* the value run_benchmark returns and writes to output_file
BenchmarkResult(image_path, result) ==
    Dict([benchmark_info |->
              Dict([image_path |-> <<"path", image_path>>,
                    analysis_type |-> Str("factory_hazard_detection")]),
          analysis_result |-> result])

\* a value is true in a condition
Truthy(v) ==
    ~(v = None \/ v = Str("") \/ v = Num(0) \/ v = List(<<>>) \/ v = Dict(EmptyDict))

\* _print_summary raises AttributeError: mode.upper() or confidence.upper() on a value
\* that is no string, or the loop over boxes that are no list of dicts
PrintRaises(result) ==
    /\ ~Truthy(GetOr(result, "error", None))
    /\ \/ ~IsStr(GetOr(result, "mode", Str("unknown")))
       \/ ~IsStr(GetOr(result, "confidence_level", Str("unknown")))
       \/ /\ GetOr(result, "mode", Str("unknown")) = Str("auto_fill")
          /\ LET boxes == GetOr(result, "bounding_boxes", List(<<>>))
             IN  /\ Truthy(boxes)
                 /\ \/ boxes[1] # "list"
                    \/ \E k \in DOMAIN boxes[2] : ~IsDict(boxes[2][k])

\* the section _print_summary prints: the error, the filled fields, the question, or
\* the mode and confidence alone
PrintSummary(result) ==
    IF Truthy(GetOr(result, "error", None)) THEN "ERROR"
    ELSE IF GetOr(result, "mode", Str("unknown")) = Str("auto_fill") THEN "ISSUE LOCATION NOTE CAPA"
    ELSE IF GetOr(result, "mode", Str("unknown")) = Str("follow_up_question")
    THEN "FOLLOW-UP QUESTION"
    ELSE "MODE"

(***************************************************************************)
(* Bounds                                                                  *)
(***************************************************************************)
\* run_full_benchmark is called with MinPaths .. MaxPaths image paths
MinPaths == 4

MaxPaths == 6

\* in one run, at most this many replies or answers differ from the scripted ones
MaxDeviations == 1

(***************************************************************************)
(* State                                                                   *)
(***************************************************************************)
VARIABLES
    image_paths,        \* the argument of run_full_benchmark
    pc,                 \* where the run stands
    i,                  \* the test number of the loop of run_full_benchmark
    results,            \* run_full_benchmark: results
    method1_scores,     \* run_full_benchmark: method1_scores
    method2_scores,     \* run_full_benchmark: method2_scores
    returned,           \* the value run_full_benchmark returned, None before
    raised,             \* the exception run_full_benchmark raised, "none" before
    method1_result,     \* run_single_benchmark: method1_result
    method2_result,     \* run_single_benchmark: method2_result
    ground_truth,       \* run_single_benchmark: ground_truth
    evaluation,         \* run_single_benchmark: evaluation
    evaluation_prompt,  \* evaluate_accuracy: the prompt sent to the judge
    followup_result,    \* method2_ai_followup: followup_result
    user_answer,        \* method2_ai_followup: user_answer
    final_result,       \* method2_ai_followup: final_result
    m2_calls,           \* the model calls of the current run of method 2
    m2_replies,         \* the replies the current run of method 2 received
    method1_reply,      \* the reply method 1 received in the current test
    judge_reply,        \* the reply the judge gave in the current test
    m2_trace,           \* the protocol states the current run of method 2 went through
    ncalls,             \* the number of model calls issued in each test
    nprompts,           \* the number of user prompts shown in each test
    steps,              \* the steps of the current test, in order
    deviations,         \* how many replies or answers differed from the script
    entry_point,        \* HazardDetectionBenchmark: the method that was called
    hd_image_path,      \* its argument image_path
    output_file,        \* its argument output_file, None when not given
    hd_pc,              \* where the call stands
    hd_raised,          \* the exception the call raised, "none" before
    requests,           \* the requests sent to chat.completions.create
    response,           \* the reply of chat.completions.create, None before
    analysis_result,    \* what analyze_hazard_image returned, None before
    benchmark_result,   \* what run_benchmark returned, None before
    written,            \* what was written to output_file, None before
    printed,            \* the section _print_summary printed, "" before
    ex_payload,         \* extraction on its own: the JSON text the model wrote
    ex_form,            \* how the reply wraps it, "none" when no reply is under study
    ex_reply,           \* the text of the reply
    ex_gemini,          \* the extraction of the Gemini methods applied to it
    ex_single           \* the extraction of analyze_hazard_image applied to it

hd_vars == <<entry_point, hd_image_path, output_file, hd_pc, hd_raised, requests, response,
             analysis_result, benchmark_result, written, printed>>

ex_vars == <<ex_payload, ex_form, ex_reply, ex_gemini, ex_single>>

vars == <<ex_vars, hd_vars, image_paths, pc, i, results, method1_scores, method2_scores, returned, raised,
          method1_result, method2_result, ground_truth, evaluation, evaluation_prompt,
          followup_result, user_answer, final_result, m2_calls, m2_replies, m2_trace,
          method1_reply, judge_reply, ncalls, nprompts, steps, deviations>>

trial_vars == <<method1_result, method2_result, ground_truth, evaluation,
                evaluation_prompt, followup_result, user_answer, final_result,
                m2_calls, m2_replies, m2_trace, method1_reply, judge_reply>>

summary_vars == <<results, method1_scores, method2_scores, returned, raised>>

NoTrial ==
    /\ method1_result = None
    /\ method2_result = None
    /\ ground_truth = None
    /\ evaluation = None
    /\ evaluation_prompt = <<>>
    /\ followup_result = None
    /\ user_answer = None
    /\ final_result = None
    /\ m2_calls = <<>>
    /\ m2_replies = <<>>
    /\ m2_trace = <<>>
    /\ method1_reply = None
    /\ judge_reply = None

\* no call of HazardDetectionBenchmark is under way
HdIdle ==
    /\ entry_point = "none"
    /\ hd_image_path = None
    /\ output_file = None
    /\ hd_pc = "idle"
    /\ hd_raised = "none"
    /\ requests = <<>>
    /\ response = None
    /\ analysis_result = None
    /\ benchmark_result = None
    /\ written = None
    /\ printed = ""

\* an extraction that has not run
NotRun == [stage |-> "none", text |-> <<>>, loaded |-> [ok |-> FALSE, val |-> None]]

\* no reply is under study on its own
ExIdle ==
    /\ ex_payload = <<>>
    /\ ex_form = "none"
    /\ ex_reply = <<>>
    /\ ex_gemini = NotRun
    /\ ex_single = NotRun

\* the variables of GeminiHazardBenchmark before a run, but for image_paths and pc
BenchStart ==
    /\ i = 0
    /\ results = <<>>
    /\ method1_scores = <<>>
    /\ method2_scores = <<>>
    /\ returned = None
    /\ raised = "none"
    /\ NoTrial
    /\ ncalls = [n \in 1 .. MaxPaths |-> 0]
    /\ nprompts = [n \in 1 .. MaxPaths |-> 0]
    /\ steps = <<>>
    /\ deviations = 0

Init ==
    /\ image_paths \in UNION {[1 .. n -> PathSet] : n \in MinPaths .. MaxPaths}
    /\ pc = "entry"
    /\ HdIdle
    /\ ExIdle
    /\ i = 0
    /\ results = <<>>
    /\ method1_scores = <<>>
    /\ method2_scores = <<>>
    /\ returned = None
    /\ raised = "none"
    /\ NoTrial
    /\ ncalls = [n \in 1 .. MaxPaths |-> 0]
    /\ nprompts = [n \in 1 .. MaxPaths |-> 0]
    /\ steps = <<>>
    /\ deviations = 0

\* the variables of a test are cleared when the test ends
ResetTrial ==
    /\ method1_result' = None
    /\ method2_result' = None
    /\ ground_truth' = None
    /\ evaluation' = None
    /\ evaluation_prompt' = <<>>
    /\ followup_result' = None
    /\ user_answer' = None
    /\ final_result' = None
    /\ m2_calls' = <<>>
    /\ m2_replies' = <<>>
    /\ m2_trace' = <<>>
    /\ method1_reply' = None
    /\ judge_reply' = None

Cost(choice, nominal) == IF choice = nominal THEN 0 ELSE 1

\* the environment may choose choice where the script says nominal
Allowed(choice, nominal) == deviations + Cost(choice, nominal) <= MaxDeviations

Last(s) == s[Len(s)]

(***************************************************************************)
(* run_full_benchmark                                                      *)
(***************************************************************************)
\* a check that only rejects lists that are too long
WrongCountTooLong(paths) == Len(paths) > RequiredTests

\* len(image_paths) != 5
WrongCount(paths) == Len(paths) # RequiredTests

\* the entry of run_full_benchmark: the check of the number of paths
RunFullBenchmark ==
    /\ pc = "entry"
    /\ IF WrongCount(image_paths)
       THEN /\ pc' = "raised"
            /\ raised' = "ValueError"
            /\ i' = i
       ELSE /\ pc' = "loop"
            /\ raised' = raised
            /\ i' = 1
    /\ UNCHANGED <<ex_vars, hd_vars, image_paths, results, method1_scores, method2_scores, returned,
                   trial_vars, ncalls, nprompts, steps, deviations>>

\* the loop takes the next path and calls run_single_benchmark, which raises
\* FileNotFoundError for a path that does not exist: the loop goes on
StartTrial ==
    /\ pc = "loop"
    /\ i <= Len(image_paths)
    /\ IF ~PathExists(image_paths[i])
       THEN /\ pc' = "loop"
            /\ i' = i + 1
            /\ steps' = <<"FileNotFoundError">>
       ELSE /\ pc' = "method1"
            /\ i' = i
            /\ steps' = <<>>
    /\ UNCHANGED <<ex_vars, hd_vars, image_paths, summary_vars, trial_vars, ncalls, nprompts, deviations>>

\* method1_manual_input_with_ai: three prompts, the image, one call, the record
Method1 ==
    /\ pc = "method1"
    /\ \E reply \in Method1Replies :
        /\ Allowed(reply, Method1Nominal)
        /\ deviations' = deviations + Cost(reply, Method1Nominal)
        /\ method1_reply' = reply
        /\ method1_result' = Method1Returns[reply]
    /\ nprompts' = [nprompts EXCEPT ![i] = @ + 3]
    /\ ncalls' = [ncalls EXCEPT ![i] = @ + 1]
    /\ steps' = Append(steps, "method1")
    /\ pc' = "m2_start"
    /\ m2_trace' = <<"Start">>
    /\ UNCHANGED <<ex_vars, hd_vars, image_paths, i, summary_vars, method2_result, ground_truth, evaluation,
                   evaluation_prompt, followup_result, user_answer, final_result, m2_calls,
                   m2_replies, judge_reply>>

\* a model call of method 2: the prompt, the image and its MIME type
ModelCall(prompt, image_path) ==
    [prompt |-> prompt, mime_type |-> MimeType(image_path), data |-> encode_image(image_path)]

\* method2_ai_followup issues its first call
Method2SendInitial ==
    /\ pc = "m2_start"
    /\ m2_calls' = <<ModelCall(FollowupPrompt, image_paths[i])>>
    /\ m2_trace' = Append(m2_trace, "InitialAnalysisSent")
    /\ ncalls' = [ncalls EXCEPT ![i] = @ + 1]
    /\ pc' = "m2_initial_sent"
    /\ UNCHANGED <<ex_vars, hd_vars, image_paths, i, summary_vars, method1_result, method2_result, ground_truth,
                   evaluation, evaluation_prompt, followup_result, user_answer, final_result,
                   m2_replies, method1_reply, judge_reply, nprompts, steps, deviations>>

\* the first call answers: the reply is parsed and the follow-up question is put to
\* the user, or the run ends in an error record
Method2RecvInitial ==
    /\ pc = "m2_initial_sent"
    /\ \E reply \in InitialReplies :
        /\ Allowed(reply, InitialNominal)
        /\ deviations' = deviations + Cost(reply, InitialNominal)
        /\ m2_replies' = Append(m2_replies, reply)
        /\ LET parsed == Method2Parsed[reply]
           IN  IF parsed.ok
               THEN /\ followup_result' = parsed.val
                    /\ m2_trace' = Append(m2_trace, "AwaitingClarification")
                    /\ nprompts' = [nprompts EXCEPT ![i] = @ + 1]
                    /\ pc' = "m2_awaiting"
                    /\ UNCHANGED <<method2_result, steps>>
               ELSE /\ method2_result' = parsed.error
                    /\ m2_trace' = Append(m2_trace, "Errored")
                    /\ steps' = Append(steps, "method2")
                    /\ pc' = "ground_truth"
                    /\ UNCHANGED <<followup_result, nprompts>>
    /\ UNCHANGED <<ex_vars, hd_vars, image_paths, i, summary_vars, method1_result, ground_truth, evaluation,
                   evaluation_prompt, user_answer, final_result, m2_calls, method1_reply,
                   judge_reply, ncalls>>

\* the user answers the follow-up question and the final call is issued
Method2Answer ==
    /\ pc = "m2_awaiting"
    /\ \E answer \in Answers :
        /\ Allowed(answer, NominalAnswer)
        /\ deviations' = deviations + Cost(answer, NominalAnswer)
        /\ user_answer' = Str(answer)
        /\ m2_calls' = Append(m2_calls,
                              ModelCall(FinalPrompt(followup_result, answer), image_paths[i]))
    /\ m2_trace' = Append(m2_trace, "FinalCallSent")
    /\ ncalls' = [ncalls EXCEPT ![i] = @ + 1]
    /\ pc' = "m2_final_sent"
    /\ UNCHANGED <<ex_vars, hd_vars, image_paths, i, summary_vars, method1_result, method2_result, ground_truth,
                   evaluation, evaluation_prompt, followup_result, final_result,
                   m2_replies, method1_reply, judge_reply, nprompts, steps>>

\* the final call answers: the record of the run, or an error record
Method2RecvFinal ==
    /\ pc = "m2_final_sent"
    /\ \E reply \in FinalReplies :
        /\ Allowed(reply, FinalNominal)
        /\ deviations' = deviations + Cost(reply, FinalNominal)
        /\ m2_replies' = Append(m2_replies, reply)
        /\ LET parsed == Method2Parsed[reply]
           IN  IF parsed.ok
               THEN /\ final_result' = parsed.val
                    /\ method2_result' =
                           Method2Record(followup_result, user_answer[2], parsed.val)
                    /\ m2_trace' = Append(m2_trace, "Done")
               ELSE /\ final_result' = final_result
                    /\ method2_result' = parsed.error
                    /\ m2_trace' = Append(m2_trace, "Errored")
    /\ steps' = Append(steps, "method2")
    /\ pc' = "ground_truth"
    /\ UNCHANGED <<ex_vars, hd_vars, image_paths, i, summary_vars, method1_result, ground_truth, evaluation,
                   evaluation_prompt, followup_result, user_answer, m2_calls,
                   method1_reply, judge_reply, ncalls, nprompts>>

\* get_ground_truth: three prompts
GetGroundTruth ==
    /\ pc = "ground_truth"
    /\ ground_truth' = GroundTruth(TruthInput)
    /\ nprompts' = [nprompts EXCEPT ![i] = @ + 3]
    /\ steps' = Append(steps, "ground_truth")
    /\ pc' = "evaluate"
    /\ UNCHANGED <<ex_vars, hd_vars, image_paths, i, summary_vars, method1_result, method2_result, evaluation,
                   evaluation_prompt, followup_result, user_answer, final_result,
                   m2_calls, m2_replies, m2_trace, method1_reply, judge_reply,
                   ncalls, deviations>>

\* evaluate_accuracy: one call of the judge
EvaluateAccuracy ==
    /\ pc = "evaluate"
    /\ \E reply \in JudgeReplies(i) :
        /\ Allowed(reply, JudgeNominal(i))
        /\ deviations' = deviations + Cost(reply, JudgeNominal(i))
        /\ judge_reply' = reply
        /\ evaluation' = EvaluateReturns[reply]
    /\ evaluation_prompt' = EvaluationPrompt(method1_result, method2_result, ground_truth)
    /\ ncalls' = [ncalls EXCEPT ![i] = @ + 1]
    /\ steps' = Append(steps, "evaluate")
    /\ pc' = "display"
    /\ UNCHANGED <<ex_vars, hd_vars, image_paths, i, summary_vars, method1_result, method2_result, ground_truth,
                   followup_result, user_answer, final_result, m2_calls, m2_replies,
                   m2_trace, method1_reply, nprompts>>

\* _display_results raises AttributeError: evaluation.get on a value that is no dict
DisplayRaises(ev) == ~IsDict(ev)

\* a loop body that appends the result before the exception is raised, and so without
\* its two scores
FinishTrialScoresLost ==
    /\ pc = "display"
    /\ IF DisplayRaises(evaluation)
       THEN /\ steps' = Append(steps, "AttributeError")
            /\ results' = Append(results,
                                 TrialResult(i, image_paths[i], method1_result, method2_result,
                                             ground_truth, evaluation))
            /\ UNCHANGED <<method1_scores, method2_scores>>
       ELSE /\ steps' = Append(steps, "appended")
            /\ results' = Append(results,
                                 TrialResult(i, image_paths[i], method1_result, method2_result,
                                             ground_truth, evaluation))
            /\ method1_scores' =
                   Append(method1_scores, GetOr(evaluation, "method1_accuracy", Num(0)))
            /\ method2_scores' =
                   Append(method2_scores, GetOr(evaluation, "method2_accuracy", Num(0)))
    /\ ResetTrial
    /\ i' = i + 1
    /\ pc' = "loop"
    /\ UNCHANGED <<ex_vars, hd_vars, image_paths, returned, raised, ncalls, nprompts, deviations>>

\* _display_results, the return of run_single_benchmark and the rest of the loop body:
\* the result and its two scores are appended, or the exception is caught by the loop
FinishTrial ==
    /\ pc = "display"
    /\ IF DisplayRaises(evaluation)
       THEN /\ steps' = Append(steps, "AttributeError")
            /\ UNCHANGED <<results, method1_scores, method2_scores>>
       ELSE /\ steps' = Append(steps, "appended")
            /\ results' = Append(results,
                                 TrialResult(i, image_paths[i], method1_result, method2_result,
                                             ground_truth, evaluation))
            /\ method1_scores' =
                   Append(method1_scores, GetOr(evaluation, "method1_accuracy", Num(0)))
            /\ method2_scores' =
                   Append(method2_scores, GetOr(evaluation, "method2_accuracy", Num(0)))
    /\ ResetTrial
    /\ i' = i + 1
    /\ pc' = "loop"
    /\ UNCHANGED <<ex_vars, hd_vars, image_paths, returned, raised, ncalls, nprompts, deviations>>

\* after the loop: the averages, the winner and the returned summary; sum raises
\* TypeError when a score is not a number
ComputeSummary ==
    /\ pc = "loop"
    /\ i > Len(image_paths)
    /\ IF SumRaises(method1_scores) \/ SumRaises(method2_scores)
       THEN /\ pc' = "raised"
            /\ raised' = "TypeError"
            /\ returned' = returned
       ELSE /\ pc' = "returned"
            /\ raised' = raised
            /\ returned' = Summary(results, method1_scores, method2_scores)
    /\ UNCHANGED <<ex_vars, hd_vars, image_paths, i, results, method1_scores, method2_scores, trial_vars,
                   ncalls, nprompts, steps, deviations>>

Next ==
    \/ RunFullBenchmark
    \/ StartTrial
    \/ Method1
    \/ Method2SendInitial
    \/ Method2RecvInitial
    \/ Method2Answer
    \/ Method2RecvFinal
    \/ GetGroundTruth
    \/ EvaluateAccuracy
    \/ FinishTrial
    \/ ComputeSummary

Spec == Init /\ [][Next]_vars

(***************************************************************************)
(* HazardDetectionBenchmark: run_benchmark and analyze_hazard_image        *)
(***************************************************************************)
bench_vars == <<image_paths, pc, i, results, method1_scores, method2_scores, returned, raised,
                trial_vars, ncalls, nprompts, steps, deviations>>

\* the files output_file may name
OutputFiles == {None, Str("hazard_analysis_result.json")}

InitSingle ==
    /\ image_paths = <<>>
    /\ pc = "idle"
    /\ BenchStart
    /\ ExIdle
    /\ entry_point \in {"run_benchmark", "analyze_hazard_image"}
    /\ hd_image_path \in PathSet
    /\ output_file \in OutputFiles
    /\ entry_point = "analyze_hazard_image" => output_file = None
    /\ hd_pc = "entry"
    /\ hd_raised = "none"
    /\ requests = <<>>
    /\ response = None
    /\ analysis_result = None
    /\ benchmark_result = None
    /\ written = None
    /\ printed = ""

\* run_benchmark: the check that the image exists, then the call of analyze_hazard_image
RunBenchmark ==
    /\ hd_pc = "entry"
    /\ entry_point = "run_benchmark"
    /\ IF ~PathExists(hd_image_path)
       THEN hd_pc' = "raised" /\ hd_raised' = "FileNotFoundError"
       ELSE hd_pc' = "analyze" /\ hd_raised' = hd_raised
    /\ UNCHANGED <<ex_vars, bench_vars, entry_point, hd_image_path, output_file, requests, response,
                   analysis_result, benchmark_result, written, printed>>

\* analyze_hazard_image called by itself
CallAnalyze ==
    /\ hd_pc = "entry"
    /\ entry_point = "analyze_hazard_image"
    /\ hd_pc' = "analyze"
    /\ UNCHANGED <<ex_vars, bench_vars, entry_point, hd_image_path, output_file, hd_raised, requests,
                   response, analysis_result, benchmark_result, written, printed>>

\* analyze_hazard_image: encode_image, which raises for a file that does not exist, and
\* the one request
SendAnalysis ==
    /\ hd_pc = "analyze"
    /\ IF ~PathExists(hd_image_path)
       THEN /\ hd_pc' = "raised"
            /\ hd_raised' = "FileNotFoundError"
            /\ requests' = requests
       ELSE /\ hd_pc' = "sent"
            /\ hd_raised' = hd_raised
            /\ requests' = Append(requests, AnalysisRequest(hd_image_path))
    /\ UNCHANGED <<ex_vars, bench_vars, entry_point, hd_image_path, output_file, response,
                   analysis_result, benchmark_result, written, printed>>

\* the request is answered and analyze_hazard_image returns
ReceiveAnalysis ==
    /\ hd_pc = "sent"
    /\ \E reply \in AnalysisReplies :
        /\ response' = reply
        /\ analysis_result' = AnalyzeReturns[reply]
    /\ hd_pc' = IF entry_point = "run_benchmark" THEN "analyzed" ELSE "returned"
    /\ UNCHANGED <<ex_vars, bench_vars, entry_point, hd_image_path, output_file, hd_raised, requests,
                   benchmark_result, written, printed>>

\* run_benchmark builds its result and writes it to output_file when one is given
BuildResult ==
    /\ hd_pc = "analyzed"
    /\ benchmark_result' = BenchmarkResult(hd_image_path, analysis_result)
    /\ written' = IF Truthy(output_file)
                  THEN BenchmarkResult(hd_image_path, analysis_result)
                  ELSE written
    /\ hd_pc' = "summary"
    /\ UNCHANGED <<ex_vars, bench_vars, entry_point, hd_image_path, output_file, hd_raised, requests,
                   response, analysis_result, printed>>

\* _print_summary and the return of run_benchmark
PrintAndReturn ==
    /\ hd_pc = "summary"
    /\ IF PrintRaises(analysis_result)
       THEN /\ hd_pc' = "raised"
            /\ hd_raised' = "AttributeError"
            /\ printed' = "MODE"
       ELSE /\ hd_pc' = "returned"
            /\ hd_raised' = hd_raised
            /\ printed' = PrintSummary(analysis_result)
    /\ UNCHANGED <<ex_vars, bench_vars, entry_point, hd_image_path, output_file, requests, response,
                   analysis_result, benchmark_result, written>>

NextSingle ==
    \/ RunBenchmark
    \/ CallAnalyze
    \/ SendAnalysis
    \/ ReceiveAnalysis
    \/ BuildResult
    \/ PrintAndReturn

SpecSingle == InitSingle /\ [][NextSingle]_vars

(***************************************************************************)
(* The extraction of a reply on its own: response.text.strip(), the fence  *)
(* handling and json.loads, as the Gemini methods and as                   *)
(* analyze_hazard_image do them, applied to one reply                      *)
(***************************************************************************)
\* the JSON objects the model may write: a hazard record, the scores of the judge, a
\* follow-up question, the empty object, and objects whose string values hold three
\* backticks, with and without the label json
Payloads ==
    { HazardText(<<"oil", WS, "leak">>, "high", TRUE),
      JudgeText(<<ToString(80)>>, <<ToString(90)>>, "method2"),
      QuestionText,
      <<"{", "}">>,
      Obj1(Member("note", StrLit(<<"use", WS, FENCE, WS, "to", WS, "quote">>))),
      Obj1(Member("note", StrLit(<<"a", WS, FENCE, "json", WS, "block">>))) }

\* the ways a reply may hold the payload
Forms ==
    {"plain", "padded", "fenced", "fenced_padded", "text_before", "text_after", "text_around"}

\* the forms in which the payload is wrapped in a fenced block labelled json
FencedForms == {"fenced", "fenced_padded", "text_before", "text_after", "text_around"}

Preamble == <<"Here", WS, "is", WS, "the", WS, "assessment:", WS>>

Closing == <<WS, "Let", WS, "me", WS, "know.">>

\* the text of the reply that holds payload in the given form
Wrap(form, payload) ==
    CASE form = "plain" -> payload
      [] form = "padded" -> <<WS>> \o payload \o <<WS>>
      [] form = "fenced" -> Fenced(payload)
      [] form = "fenced_padded" -> <<WS>> \o Fenced(payload) \o <<WS>>
      [] form = "text_before" -> Preamble \o Fenced(payload)
      [] form = "text_after" -> Fenced(payload) \o Closing
      [] form = "text_around" -> Preamble \o Fenced(payload) \o Closing

InitExtract ==
    /\ image_paths = <<>>
    /\ pc = "idle"
    /\ BenchStart
    /\ HdIdle
    /\ ex_payload \in Payloads
    /\ ex_form \in Forms
    /\ ex_reply = Wrap(ex_form, ex_payload)
    /\ ex_gemini = NotRun
    /\ ex_single = NotRun

\* response_text = response.text.strip() and the fence handling of the Gemini methods
GeminiFence ==
    /\ ex_form # "none"
    /\ ex_gemini.stage = "none"
    /\ ex_gemini' = [ex_gemini EXCEPT !.stage = "stripped",
                                      !.text = GeminiStripFence(Strip(ex_reply))]
    /\ UNCHANGED <<bench_vars, hd_vars, ex_payload, ex_form, ex_reply, ex_single>>

\* json.loads(response_text) in the Gemini methods
GeminiLoads ==
    /\ ex_gemini.stage = "stripped"
    /\ ex_gemini' = [ex_gemini EXCEPT !.stage = "loaded", !.loaded = json_loads(ex_gemini.text)]
    /\ UNCHANGED <<bench_vars, hd_vars, ex_payload, ex_form, ex_reply, ex_single>>

\* content = ....content.strip() and the clean-up of analyze_hazard_image
SingleClean ==
    /\ ex_form # "none"
    /\ ex_single.stage = "none"
    /\ ex_single' = [ex_single EXCEPT !.stage = "stripped",
                                      !.text = CleanContent(Strip(ex_reply))]
    /\ UNCHANGED <<bench_vars, hd_vars, ex_payload, ex_form, ex_reply, ex_gemini>>

\* json.loads(content) in analyze_hazard_image
SingleLoads ==
    /\ ex_single.stage = "stripped"
    /\ ex_single' = [ex_single EXCEPT !.stage = "loaded", !.loaded = json_loads(ex_single.text)]
    /\ UNCHANGED <<bench_vars, hd_vars, ex_payload, ex_form, ex_reply, ex_gemini>>

NextExtract ==
    \/ GeminiFence
    \/ GeminiLoads
    \/ SingleClean
    \/ SingleLoads

SpecExtract == InitExtract /\ [][NextExtract]_vars

(***************************************************************************)
(* Properties of the extraction of a reply                                 *)
(***************************************************************************)
\* C12: for a reply that holds a well-formed JSON object in a fenced block labelled
\* json, with or without text around the block and whatever the strings of the object
\* hold, the extraction of the Gemini methods and that of analyze_hazard_image give what
\* json.loads gives for the object itself.
C12_FencedSameAsUnwrapped ==
    ex_form \in FencedForms =>
        /\ ex_gemini.stage = "loaded" => ex_gemini.loaded = json_loads(ex_payload)
        /\ ex_single.stage = "loaded" => ex_single.loaded = json_loads(ex_payload)

\* the forms in which the payload has no fence around it
UnfencedForms == {"plain", "padded"}

\* C13: for a reply that is valid JSON with no fence around it, the fence handling
\* leaves the stripped text as it is, and the extraction succeeds with the record that
\* the same payload gives when it is wrapped in a fenced block labelled json.
C13_UnfencedSameAsFenced ==
    ex_form \in UnfencedForms =>
        /\ ex_gemini.stage # "none" => ex_gemini.text = Strip(ex_reply)
        /\ ex_single.stage # "none" => ex_single.text = Strip(ex_reply)
        /\ ex_gemini.stage = "loaded" =>
               /\ ex_gemini.loaded.ok
               /\ ex_gemini.loaded = GeminiExtract(Fenced(ex_payload))
        /\ ex_single.stage = "loaded" =>
               /\ ex_single.loaded.ok
               /\ ex_single.loaded = json_loads(CleanContent(Strip(Fenced(ex_payload))))

(***************************************************************************)
(* Properties of analyze_hazard_image                                      *)
(***************************************************************************)
\* the confidence tiers that allow auto-fill
ConfidentTiers == {Str("high"), Str("medium")}

\* the confidence_level of the result stands for a tier that allows auto-fill: it is
\* present, and neither "low" nor "error" nor a value that is no tier
Confident(result) ==
    /\ "confidence_level" \in DOMAIN result[2]
    /\ result[2].confidence_level \in ConfidentTiers

\* C10: analyze_hazard_image returns a result in auto_fill mode only when the
\* confidence_level of the reply is present and neither "low" nor "error"; a reply whose
\* confidence tier is missing, unparseable or low is returned in follow_up_question or
\* error mode, and its fields are not printed as filled.
C10_AutoFillOnlyWhenConfident ==
    analysis_result # None =>
        /\ Get(analysis_result, "mode") = Str("auto_fill") => Confident(analysis_result)
        /\ ~Confident(analysis_result) =>
               Get(analysis_result, "mode") \in {Str("follow_up_question"), Str("error")}
        /\ printed = "ISSUE LOCATION NOTE CAPA" => Confident(analysis_result)

\* the replies of chat.completions.create that hold a text
TextReplies == {reply \in AnalysisReplies : ~reply.raised /\ reply.content # None}

\* the text analyze_hazard_image hands to json.loads, for each reply that holds a text
Cleaned == [reply \in TextReplies |-> CleanContent(Strip(reply.content))]

\* what json.loads makes of that text
Loaded == [reply \in TextReplies |-> json_loads(Cleaned[reply])]

\* the reply holds a text that cannot be extracted as the expected payload, a JSON object
NotExtracted(reply) ==
    /\ reply \in TextReplies
    /\ ~Loaded[reply].ok \/ ~IsDict(Loaded[reply].val)

\* C11: analyze_hazard_image issues exactly one request and never a second one; when the
\* reply cannot be extracted, the record it returns has confidence_level "error" and
\* mode "error" and holds the cause of the failure and the text of the reply.
C11_OneCallAndErrorRecord ==
    /\ Len(requests) <= 1
    /\ analysis_result # None =>
           /\ Len(requests) = 1
           /\ NotExtracted(response) =>
                  /\ Get(analysis_result, "confidence_level") = Str("error")
                  /\ Get(analysis_result, "mode") = Str("error")
                  /\ IsStr(Get(analysis_result, "error"))
                  /\ Get(analysis_result, "raw_response") \in
                         { Text(response.content), Text(Strip(response.content)),
                           Text(Cleaned[response]) }

(***************************************************************************)
(* Properties of run_full_benchmark                                        *)
(***************************************************************************)
\* The image paths that exist
Existing == {n \in DOMAIN image_paths : PathExists(image_paths[n])}

\* The test numbers of the results collected so far
Collected == {results[k][2].test_number[2] : k \in DOMAIN results}

\* C1: run_full_benchmark called with a number of image paths other than 5 raises
\* ValueError before any model call, any user prompt and any trial: the run is at
\* its entry or has raised ValueError, nothing was called, asked, started or returned.
C1_WrongCountRaisesFirst ==
    Len(image_paths) # RequiredTests =>
        /\ pc \in {"entry", "raised"}
        /\ pc = "raised" => raised = "ValueError"
        /\ \A n \in DOMAIN ncalls : ncalls[n] = 0 /\ nprompts[n] = 0
        /\ i = 0
        /\ steps = <<>>
        /\ NoTrial
        /\ results = <<>>
        /\ returned = None

\* the field key of the benchmark_summary of the returned value
SummaryField(key) == returned[2].benchmark_summary[2][key]

\* C2: a trial whose image path does not exist is skipped with no model call and no
\* prompt; every trial whose path exists is still run whatever came before it; and
\* total_tests is the number of trials that completed, which is the number of existing
\* paths when no trial is lost otherwise (4 for five paths of which one is missing).
C2_MissingPathSkipped ==
    /\ \A n \in DOMAIN image_paths :
           ~PathExists(image_paths[n]) =>
               ncalls[n] = 0 /\ nprompts[n] = 0 /\ n \notin Collected
    /\ (Len(image_paths) = RequiredTests /\ pc \in {"returned", "raised"}) =>
           \A n \in Existing : ncalls[n] >= 3 /\ nprompts[n] >= 6
    /\ pc = "returned" =>
           /\ SummaryField("total_tests") = Num(Cardinality(Collected))
           /\ Collected \subseteq Existing
           /\ deviations = 0 => SummaryField("total_tests") = Num(Cardinality(Existing))

\* a run of five paths, the second of them missing, has returned total_tests = 4
C2_Witness ==
    /\ pc = "returned"
    /\ Len(image_paths) = RequiredTests
    /\ {n \in DOMAIN image_paths : ~PathExists(image_paths[n])} = {2}
    /\ SummaryField("total_tests") = Num(4)
    /\ ncalls[2] = 0
    /\ ncalls[3] > 0

\* avg is the mean of the numbers of scores, 0 for no scores
IsMean(avg, scores) ==
    IF scores = <<>> THEN avg = Num(0)
    ELSE /\ avg[1] = "float"
         /\ avg[3] > 0
         /\ avg[2] * Len(scores) = avg[3] * Sum(scores)

\* the numbers a and b are equal
NumEqual(a, b) == Frac(a)[1] * Frac(b)[2] = Frac(b)[1] * Frac(a)[2]

\* the scores the judge gave to method key in the completed trials, in order
CompletedScores(key) ==
    [k \in DOMAIN results |-> GetOr(results[k][2].evaluation, key, Num(0))]

ExampleScores1 == <<Num(80), Num(70), Num(100), Num(60), Num(90)>>

ExampleScores2 == <<Num(90), Num(95), Num(85), Num(70), Num(88)>>

\* C3: the summary holds, for each method, the mean of the scores of the completed
\* trials (0 when there is none); its winner is method1 iff mean1 > mean2, method2 iff
\* mean2 > mean1 and tie iff the means are equal, whatever the winners of the trials;
\* the scores (80,90),(70,95),(100,85),(60,70),(90,88) give 80.0, 85.6 and method2.
C3_MeansAndWinner ==
    pc = "returned" =>
        LET avg1 == SummaryField("method1_average")
            avg2 == SummaryField("method2_average")
            winner == SummaryField("winner")
        IN  /\ SummaryField("method1_scores") = List(CompletedScores("method1_accuracy"))
            /\ SummaryField("method2_scores") = List(CompletedScores("method2_accuracy"))
            /\ IsMean(avg1, CompletedScores("method1_accuracy"))
            /\ IsMean(avg2, CompletedScores("method2_accuracy"))
            /\ winner = Str("method1") <=> Greater(avg1, avg2)
            /\ winner = Str("method2") <=> Greater(avg2, avg1)
            /\ winner = Str("tie") <=> NumEqual(avg1, avg2)
            /\ (/\ CompletedScores("method1_accuracy") = ExampleScores1
                /\ CompletedScores("method2_accuracy") = ExampleScores2) =>
                   /\ avg1 = <<"float", 80, 1>>
                   /\ avg2 = <<"float", 428, 5>>
                   /\ winner = Str("method2")

\* a run whose five trials were scored as in the example has returned its summary
C3_Witness ==
    /\ pc = "returned"
    /\ SummaryField("method1_scores") = List(ExampleScores1)
    /\ SummaryField("method2_scores") = List(ExampleScores2)
    /\ SummaryField("method2_average") = <<"float", 428, 5>>
    /\ SummaryField("winner") = Str("method2")

\* a run has returned a tie of two equal means above 0
C3_TieReached ==
    /\ pc = "returned"
    /\ SummaryField("winner") = Str("tie")
    /\ Greater(SummaryField("method1_average"), Num(0))

\* every reply a call of a trial may receive
AllReplies ==
    Method1Replies \cup InitialReplies \cup FinalReplies
        \cup UNION {JudgeReplies(n) : n \in 1 .. Len(ScriptedScores)}

\* what the extraction of each reply gives: ok is FALSE for a reply that could not
\* be read as JSON
Extraction == [reply \in AllReplies |-> GeminiExtract(reply.text)]

\* the call that received reply failed: the transport raised, or the reply could not
\* be extracted as a JSON object
CallFailed(reply) ==
    reply.raised \/ ~Extraction[reply].ok \/ ~IsDict(Extraction[reply].val)

\* the steps of a test that was started
Started == steps # <<>> /\ steps[1] = "method1"

\* C4: when the judge call fails, evaluate_accuracy returns the scores 0 and 0 and the
\* winner "error", and the trial is still counted: its result is appended with a score
\* of 0 in both lists.
C4_JudgeFailureCounted ==
    /\ (pc = "display" /\ CallFailed(judge_reply)) =>
           /\ IsDict(evaluation)
           /\ Get(evaluation, "method1_accuracy") = Num(0)
           /\ Get(evaluation, "method2_accuracy") = Num(0)
           /\ Get(evaluation, "winner") = Str("error")
    /\ (pc = "loop" /\ Started /\ "evaluate" \in {steps[k] : k \in DOMAIN steps}) =>
           /\ Last(steps) = "appended"
           /\ (i - 1) \in Collected
           /\ Len(method1_scores) = Len(results)
           /\ Len(method2_scores) = Len(results)

\* the runs of the two-round protocol
ProtocolRuns ==
    { <<"Start", "InitialAnalysisSent", "AwaitingClarification", "FinalCallSent", "Done">>,
      <<"Start", "InitialAnalysisSent", "AwaitingClarification", "FinalCallSent", "Errored">>,
      <<"Start", "InitialAnalysisSent", "Errored">> }

IsPrefix(a, b) == Len(a) <= Len(b) /\ SubSeq(b, 1, Len(a)) = a

\* the protocol states the current run of method 2 went through
Visited == {m2_trace[k] : k \in DOMAIN m2_trace}

\* the prompts of the current test that method 2 showed: those after the three of method 1
\* and before the three of get_ground_truth
Method2Prompts ==
    nprompts[i] - 3 - (IF "ground_truth" \in {steps[k] : k \in DOMAIN steps} THEN 3 ELSE 0)

\* C5: a run of method2_ai_followup goes Start, InitialAnalysisSent,
\* AwaitingClarification, FinalCallSent, Done, or ends in Errored; the answer is asked
\* for only after the initial reply was extracted, the final call is issued only after
\* an answer was given, a run that reaches Done asked exactly one question, at most two
\* calls are issued, and after a failure of the initial call there is neither a prompt
\* nor a final call.
C5_TwoRoundProtocol ==
    m2_trace # <<>> =>
        /\ \E run \in ProtocolRuns : IsPrefix(m2_trace, run)
        /\ Len(m2_calls) <= 2
        /\ Len(m2_replies) <= Len(m2_calls)
        /\ Method2Prompts \in {0, 1}
        /\ Method2Prompts = 1 <=> "AwaitingClarification" \in Visited
        /\ "AwaitingClarification" \in Visited =>
               /\ Len(m2_replies) >= 1
               /\ ~CallFailed(m2_replies[1])
        /\ Len(m2_calls) = 2 <=> "FinalCallSent" \in Visited
        /\ "FinalCallSent" \in Visited => IsStr(user_answer) /\ Method2Prompts = 1
        /\ "FinalCallSent" \notin Visited => user_answer = None \/ pc = "m2_awaiting"
        /\ Last(m2_trace) = "Done" => Method2Prompts = 1 /\ Len(m2_calls) = 2
        /\ (Len(m2_replies) >= 1 /\ CallFailed(m2_replies[1])) =>
               /\ m2_trace = <<"Start", "InitialAnalysisSent", "Errored">>
               /\ Len(m2_calls) = 1
               /\ Method2Prompts = 0
               /\ user_answer = None

\* a run of method 2 has reached Done after one question and two calls
C5_Witness ==
    /\ m2_trace # <<>>
    /\ Last(m2_trace) = "Done"
    /\ Len(m2_calls) = 2
    /\ Method2Prompts = 1

\* a run of method 2 has ended in Errored at its initial call
C5_ErroredAtInitial ==
    /\ m2_trace = <<"Start", "InitialAnalysisSent", "Errored">>
    /\ Len(m2_calls) = 1

\* the parts of the prompt of the final call
FinalPromptParts == {m2_calls[2].prompt[k] : k \in DOMAIN m2_calls[2].prompt}

\* the follow-up question the initial call returned
Question == GetOr(Extraction[m2_replies[1]].val, "follow_up_question", None)

\* C6: the prompt of the final call holds the follow-up question the initial call
\* returned and the answer the user gave, both unchanged, and the final call carries
\* the image and the MIME type of the initial call.
C6_FinalPromptCarriesBoth ==
    Len(m2_calls) = 2 =>
        /\ IsStr(Question) => Question[2] \in FinalPromptParts
        /\ IsStr(user_answer) /\ user_answer[2] \in FinalPromptParts
        /\ m2_calls[2].mime_type = m2_calls[1].mime_type
        /\ m2_calls[2].data = m2_calls[1].data
        /\ m2_calls[2].data = FileBytes(image_paths[i])

\* the final call was issued with the question "Is it oil?" and the scripted answer
C6_Witness ==
    /\ Len(m2_calls) = 2
    /\ Question = Str("Is it oil?")
    /\ user_answer = Str("metal shard visible near conveyor belt, west wall")
    /\ "Is it oil?" \in FinalPromptParts
    /\ "metal shard visible near conveyor belt, west wall" \in FinalPromptParts
    /\ m2_calls[2].mime_type = "image/png"

\* the run of method 2 of the current test ended in the protocol state st
EndedIn(st) == m2_trace # <<>> /\ Last(m2_trace) = st

\* the fields of a hazard record
HazardFields == {"issue", "location", "note", "confidence_level", "capa"}

\* C7: the record of a run that reached Done holds the fields of the final reply,
\* follow_up_question equal to the question of the initial reply and user_answer equal
\* to the answer given: the two values that the prompt of the final call holds.
C7_DoneRecord ==
    EndedIn("Done") =>
        LET final == Extraction[m2_replies[2]].val
        IN  /\ IsDict(method2_result)
            /\ \A key \in HazardFields \cap DOMAIN final[2] :
                   Get(method2_result, key) = final[2][key]
            /\ Get(method2_result, "follow_up_question") = Question
            /\ Get(method2_result, "user_answer") = user_answer
            /\ IsStr(Question) => Question[2] \in FinalPromptParts
            /\ user_answer[2] \in FinalPromptParts

\* a run has reached Done with the question "Which bay?" in its record
C7_Witness ==
    /\ EndedIn("Done")
    /\ Get(method2_result, "follow_up_question") = Str("Which bay?")
    /\ Get(method2_result, "user_answer") = Str("metal shard visible near conveyor belt, west wall")
    /\ Get(method2_result, "issue") = Str("oil leak at pump")

\* the values of the fields of the record d
Values(d) == {d[2][key] : key \in DOMAIN d[2]}

\* the record d preserves the text t of a reply, as received or stripped
Preserves(d, t) == Text(t) \in Values(d) \/ Text(Strip(t)) \in Values(d)

\* the reply a run of method 2 that ended in Errored failed at
FailedReply == Last(m2_replies)

\* C8: when extraction fails at either call of method 2, the run returns a record with
\* confidence_level "error" that preserves the raw text of the reply, and the failed
\* call is not retried.
C8_ErroredKeepsRawText ==
    (EndedIn("Errored") /\ ~FailedReply.raised) =>
        /\ Get(method2_result, "confidence_level") = Str("error")
        /\ Preserves(method2_result, FailedReply.text)
        /\ Len(m2_calls) = Len(m2_replies)

\* the steps of the current test so far
StepSet == {steps[k] : k \in DOMAIN steps}

\* C9: a failure of the call of method 1, of either call of method 2 or of the judge is
\* turned by that component into a record whose confidence_level (winner for the judge)
\* is "error", and the trial goes on to the ground truth and the scoring and is kept.
C9_FailureStaysInComponent ==
    /\ (IsDict(method1_result) /\ CallFailed(method1_reply)) =>
           Get(method1_result, "confidence_level") = Str("error")
    /\ (EndedIn("Errored") /\ CallFailed(FailedReply)) =>
           Get(method2_result, "confidence_level") = Str("error")
    /\ (pc = "display" /\ CallFailed(judge_reply)) =>
           IsDict(evaluation) /\ Get(evaluation, "winner") = Str("error")
    /\ (pc = "loop" /\ Started) =>
           /\ {"ground_truth", "evaluate"} \subseteq StepSet
           /\ Last(steps) = "appended"

\* the call answered reply with a text that is not valid JSON after the fence handling
InvalidJson(reply) == ~reply.raised /\ ~Extraction[reply].ok

\* C14: for a reply that is not valid JSON after the fence handling, method 1, either
\* call of method 2, the judge and analyze_hazard_image each return an error outcome as
\* a value, with no exception leaving the component, and the outcome holds the text of
\* the reply.
C14_InvalidJsonErrorValue ==
    /\ (IsDict(method1_result) /\ InvalidJson(method1_reply)) =>
           /\ IsStr(Get(method1_result, "error"))
           /\ Preserves(method1_result, method1_reply.text)
    /\ (EndedIn("Errored") /\ InvalidJson(FailedReply)) =>
           /\ IsDict(method2_result)
           /\ IsStr(Get(method2_result, "error"))
           /\ Preserves(method2_result, FailedReply.text)
    /\ (pc = "display" /\ InvalidJson(judge_reply)) =>
           /\ IsDict(evaluation)
           /\ Get(evaluation, "winner") = Str("error")
           /\ Preserves(evaluation, judge_reply.text)
    /\ (analysis_result # None /\ response \in TextReplies /\ ~Loaded[response].ok) =>
           /\ Get(analysis_result, "mode") = Str("error")
           /\ Get(analysis_result, "raw_response") = Text(Cleaned[response])

\* the fields of the record analyze_hazard_image asks the model for
AnalysisFields ==
    {"confidence_level", "mode", "issue", "location", "note", "bounding_boxes", "capa",
     "follow_up_question"}

\* the record holds, for each of the fields, the value the payload gives it, None when
\* the payload does not hold the key, and no key of the payload besides the fields
FromPayload(record, payload, fields) ==
    /\ \A key \in fields :
           Get(record, key) = IF key \in DOMAIN payload[2] THEN payload[2][key] ELSE None
    /\ (DOMAIN record[2] \cap DOMAIN payload[2]) \subseteq fields

\* C15: the record an assessor returns for a parsed payload holds None for every field
\* whose key the payload lacks, capa included, and none of the keys of the payload that
\* are not fields of the record; this holds for method 1, for method 2 and for
\* analyze_hazard_image.
C15_MissingKeysAreNull ==
    /\ (IsDict(method1_result) /\ ~CallFailed(method1_reply)) =>
           FromPayload(method1_result, Extraction[method1_reply].val, HazardFields)
    /\ EndedIn("Done") =>
           FromPayload(method2_result, Extraction[m2_replies[2]].val, HazardFields)
    /\ (analysis_result # None /\ response \in TextReplies /\ ~NotExtracted(response)) =>
           FromPayload(analysis_result, Loaded[response].val, AnalysisFields)

\* the winners a score result may name
Winners == {Str("method1"), Str("method2"), Str("tie"), Str("error")}

\* v is an integer score
IsScore(v) == IsInt(v) /\ v[2] \in 0 .. 100

\* C16: whatever the judge replies, what evaluate_accuracy returns holds two integer
\* scores in 0 .. 100 and a winner that is method1, method2, tie or error, and so do
\* the score lists of the run and the summary that is returned.
C16_ScoresInRange ==
    /\ pc = "display" =>
           /\ IsDict(evaluation)
           /\ IsScore(Get(evaluation, "method1_accuracy"))
           /\ IsScore(Get(evaluation, "method2_accuracy"))
           /\ Get(evaluation, "winner") \in Winners
    /\ \A k \in DOMAIN method1_scores : IsScore(method1_scores[k])
    /\ \A k \in DOMAIN method2_scores : IsScore(method2_scores[k])
    /\ pc = "returned" =>
           /\ SummaryField("method1_scores") = List(method1_scores)
           /\ SummaryField("method2_scores") = List(method2_scores)
           /\ SummaryField("winner") \in Winners

\* the keys of a score result
ScoreKeys == {"method1_accuracy", "method2_accuracy", "winner"}

\* the reply of a judge whose winner contradicts its scores
InconsistentJudge == Reply(JudgeText(<<ToString(40)>>, <<ToString(95)>>, "method1"))

\* C17: for a judge reply that is extracted, evaluate_accuracy returns the payload of the
\* judge as it is: the winner and the two scores are the declared ones, also when the
\* declared winner contradicts the scores.
C17_JudgeDeclarationKept ==
    (pc = "display" /\ ~CallFailed(judge_reply)) =>
        /\ evaluation = Extraction[judge_reply].val
        /\ \A key \in ScoreKeys :
               Get(evaluation, key) = Get(Extraction[judge_reply].val, key)
        /\ judge_reply = InconsistentJudge =>
               /\ Get(evaluation, "winner") = Str("method1")
               /\ Get(evaluation, "method1_accuracy") = Num(40)
               /\ Get(evaluation, "method2_accuracy") = Num(95)

\* the judge declared method1 the winner with the scores 40 and 95, and that is what
\* evaluate_accuracy returned
C17_Witness ==
    /\ pc = "display"
    /\ judge_reply = InconsistentJudge
    /\ Get(evaluation, "winner") = Str("method1")
    /\ Get(evaluation, "method2_accuracy") = Num(95)

\* the steps of a trial, in the order of run_single_benchmark
TrialOrder == <<"method1", "method2", "ground_truth", "evaluate">>

\* the three fields of a record as the prompt of the judge shows them
Shown(record, keys) == [k \in 1 .. 3 |-> Fmt(GetOr(record, keys[k], Str("N/A")))]

\* C18: the steps of a trial run in the order method 1, method 2, ground truth, judge,
\* each once; the judge is called only when the two assessors have returned and the
\* ground truth was given, and its prompt is built from those three records; while test
\* i is running no call and no prompt of a later test has taken place.
C18_StepsInOrder ==
    /\ \/ steps = <<"FileNotFoundError">>
       \/ IsPrefix(steps, TrialOrder \o <<"appended">>)
       \/ IsPrefix(steps, TrialOrder \o <<"AttributeError">>)
    /\ pc = "evaluate" => IsDict(method1_result) /\ IsDict(method2_result) /\ IsDict(ground_truth)
    /\ pc = "display" =>
           /\ steps = TrialOrder
           /\ ncalls[i] = 1 + Len(m2_calls) + 1
           /\ evaluation_prompt =
                  <<"METHOD 1 RESULT:">>
                      \o Shown(method1_result, <<"issue", "location", "note">>)
                      \o <<"METHOD 2 RESULT:">>
                      \o Shown(method2_result, <<"issue", "location", "note">>)
                      \o <<"GROUND TRUTH (CORRECT ANSWER):">>
                      \o Shown(ground_truth, <<"actual_issue", "actual_location", "actual_note">>)
    /\ pc \notin {"evaluate", "display"} => evaluation = None /\ evaluation_prompt = <<>>
    /\ \A n \in DOMAIN ncalls : n > i => ncalls[n] = 0 /\ nprompts[n] = 0
    /\ steps # <<>> /\ Last(steps) = "appended" => (i - 1) \in Collected

\* the judge of test 2 was called after the four steps of test 1 and the first three of
\* test 2, with the records of test 2
C18_Witness ==
    /\ pc = "display"
    /\ i = 2
    /\ 1 \in Collected
    /\ steps = TrialOrder
    /\ evaluation_prompt[2] = "oil leak"
    /\ evaluation_prompt[6] = "oil leak at pump"
    /\ evaluation_prompt[10] = "oil leak"
    /\ ncalls = [n \in 1 .. MaxPaths |-> IF n <= 2 THEN 4 ELSE 0]

\* the test number of the k-th result
TestNumber(k) == results[k][2].test_number[2]

\* C19: at every point of a run, and in the summary it returns, method1_scores and
\* method2_scores are as long as results; the k-th scores are those of the evaluation of
\* the k-th result; the test numbers of the results increase strictly and each result
\* holds the image path of its test number; total_tests is that common length.
C19_ListsAligned ==
    /\ Len(method1_scores) = Len(results)
    /\ Len(method2_scores) = Len(results)
    /\ \A k \in DOMAIN results :
           /\ IsDict(results[k][2].evaluation)
           /\ method1_scores[k] = GetOr(results[k][2].evaluation, "method1_accuracy", Num(0))
           /\ method2_scores[k] = GetOr(results[k][2].evaluation, "method2_accuracy", Num(0))
           /\ TestNumber(k) \in DOMAIN image_paths
           /\ results[k][2].image_path = <<"path", image_paths[TestNumber(k)]>>
    /\ \A k \in DOMAIN results : \A m \in DOMAIN results : k < m => TestNumber(k) < TestNumber(m)
    /\ pc = "returned" =>
           /\ returned[2].detailed_results = List(results)
           /\ SummaryField("total_tests") = Num(Len(results))
           /\ SummaryField("method1_scores") = List(method1_scores)
           /\ SummaryField("method2_scores") = List(method2_scores)

\* a run in which test 1 was lost at the display and test 3 was skipped has returned
\* three results, numbered 2, 4 and 5, with three scores in each list
C19_Witness ==
    /\ pc = "returned"
    /\ Len(results) = 3
    /\ <<TestNumber(1), TestNumber(2), TestNumber(3)>> = <<2, 4, 5>>
    /\ Len(method1_scores) = 3
    /\ SummaryField("total_tests") = Num(3)

\* C20: run_full_benchmark called with exactly 5 image paths never raises, whatever the
\* model and the judge reply and whichever trials fail: neither the loop over the trials
\* nor the computation of the means lets an exception out, and the run ends by
\* returning its summary.
C20_NeverRaises ==
    Len(image_paths) = RequiredTests =>
        /\ raised = "none"
        /\ pc # "raised"

\* a call with 4 paths has raised ValueError
C1_Witness ==
    /\ Len(image_paths) = 4
    /\ pc = "raised"
    /\ raised = "ValueError"
    /\ returned = None

====
